---- MODULE Spec2Model ----
(***************************************************************************)
(* A model of FiniteStateMachine, the configurable adapter of              *)
(* projects/fe-behavior/src/lib/state/finite-state-machine.ts, together    *)
(* with the part of the javascript-state-machine engine (v3) it drives.    *)
(*                                                                         *)
(* Strings are sequences of one-character strings, so that captialize,     *)
(* the transition key format and the engine's camelize are computed and    *)
(* two names can collide.  A JavaScript object is a function whose DOMAIN  *)
(* is the set of its own keys.  Function values (callbacks, handlers) are  *)
(* sequences of strings that name the argument position they were passed   *)
(* in.                                                                     *)
(*                                                                         *)
(* The adapter is synchronous; the only interleaving is re-entrancy: user  *)
(* callbacks invoked by the engine may call the adapter again.  The call   *)
(* stack of engine transitions in progress is the variable stack.          *)
(* Callbacks are assumed to return undefined and to swallow the errors of  *)
(* the calls they make.                                                    *)
(***************************************************************************)
EXTENDS Naturals, Sequences, FiniteSets, TLC

VARIABLES
    env,                        \* the input universe of this behaviour (fixed by Init)
    impl,                       \* this._impl: 0 is null, n > 0 the n-th engine created
    initState,                  \* this._initState
    errorHandler,               \* this._errorHandler
    stateConfiguration,         \* this._stateConfiguration
    transitionConfiguration,    \* this._transitionConfiguration
    handlers,                   \* this._handlers
    engines,                    \* the StateMachine instances created so far
    stack,                      \* engine transitions in progress, innermost last
    ret,                        \* the outcome of the call that has just returned
    removed                     \* history: the <<list, handler>> pairs that an
                                \* offEnterState/offExitState was called for and that
                                \* no registration has succeeded for since

vars == <<env, impl, initState, errorHandler, stateConfiguration,
          transitionConfiguration, handlers, engines, stack, ret, removed>>

----------------------------------------------------------------------------
(* Bounds of the model.                                                    *)

MaxStates == 3          \* declared states per adapter
MaxTransitions == 2     \* declared transitions per adapter
MaxEngines == 2         \* start() calls that reach the engine constructor

----------------------------------------------------------------------------
(* Strings.                                                                *)

LowerLetters == <<"a","b","c","d","e","f","g","h","i","j","k","l","m",
                  "n","o","p","q","r","s","t","u","v","w","x","y","z">>
UpperLetters == <<"A","B","C","D","E","F","G","H","I","J","K","L","M",
                  "N","O","P","Q","R","S","T","U","V","W","X","Y","Z">>

toUpperCase(c) ==
    IF \E i \in 1..26 : LowerLetters[i] = c
    THEN UpperLetters[CHOOSE i \in 1..26 : LowerLetters[i] = c]
    ELSE c

toLowerCase(c) ==
    IF \E i \in 1..26 : UpperLetters[i] = c
    THEN LowerLetters[CHOOSE i \in 1..26 : UpperLetters[i] = c]
    ELSE c

LowerAll(s) == [i \in 1..Len(s) |-> toLowerCase(s[i])]

\* value.charAt(0).toUpperCase() + value.slice(1)
captialize(value) ==
    IF value = <<>> THEN <<>> ELSE <<toUpperCase(value[1])>> \o Tail(value)

\* A key that leaves out the target state: every transition out of `from`
\* then shares one key. C2 does not hold of this variant.
transitionKeyFormatFromOnly(from, to) == from \o <<"2">>

\* replaceStr(transitionKeyFormat, { from: from, to: to }) with the format '{from}2{to}'
transitionKeyFormat(from, to) == from \o <<"2">> \o to

\* The values null and undefined, and the names used as inputs.
Null == <<"null">>
Undefined == <<"undefined">>
NameN1 == <<"n","1">>
NameN2 == <<"n","2">>
NameN3 == <<"n","3">>
NameEmpty == <<>>
NameToString == <<"t","o","S","t","r","i","n","g">>
NameUpperN1 == <<"N","1">>
NameUnderN1 == <<"_","n","1">>
NameN == <<"n">>
NameN2N == <<"n","2","n">>
NameState == <<"s","t","a","t","e">>
NameNone == <<"n","o","n","e">>

\* Keys every object literal {} inherits from Object.prototype: obj[key] is
\* truthy for them although the object has no such own key.
ObjectPrototypeKeys ==
    { NameToString,
      <<"v","a","l","u","e","O","f">>,
      <<"c","o","n","s","t","r","u","c","t","o","r">> }

\* if (obj[key]) for an object literal whose own values are objects
Truthy(obj, key) == key \in DOMAIN obj \/ key \in ObjectPrototypeKeys

\* if (value) for a value that is a string or null
TruthyString(value) == value # Null /\ value # NameEmpty

\* obj[key] = value
Put(obj, key, value) ==
    [k \in DOMAIN obj \cup {key} |-> IF k = key THEN value ELSE obj[k]]

EmptyObject == [k \in {} |-> Undefined]

\* A function value passed as argument `role` for `owner`.
Fn(role, owner) == <<"fn", role>> \o owner
OptFn(given, role, owner) == IF given THEN Fn(role, owner) ELSE Undefined
ErrorFn == <<"fn", "onInvalidTransition">>
DefaultErrorHandler == <<"fn", "defaultErrorHandler">>

----------------------------------------------------------------------------
(* The engine: javascript-state-machine v3, as far as the adapter uses it. *)
(* Its source is not part of this repository; the definitions below follow *)
(* the interface IUnderlyImpl and the options the adapter passes to it.     *)

IsSeparator(c) == c = "_" \/ c = "-"

\* label.split(/[_-]/)
RECURSIVE SplitWords(_)
SplitWords(label) ==
    IF \A i \in 1..Len(label) : ~IsSeparator(label[i])
    THEN <<label>>
    ELSE LET p == CHOOSE i \in 1..Len(label) :
                      IsSeparator(label[i]) /\ \A j \in 1..(i - 1) : ~IsSeparator(label[j])
         IN  <<SubSeq(label, 1, p - 1)>> \o SplitWords(SubSeq(label, p + 1, Len(label)))

RECURSIVE JoinCamel(_)
JoinCamel(words) ==
    IF words = <<>> THEN <<>>
    ELSE captialize(LowerAll(Head(words))) \o JoinCamel(Tail(words))

\* camelize(label): a single word whose first character is lowercase is
\* left untouched; otherwise the first word is lowercased and the others
\* are capitalised.
camelize(label) ==
    IF label = <<>> THEN label
    ELSE LET words == SplitWords(label)
         IN  IF Len(words) = 1 /\ toLowerCase(label[1]) = label[1]
             THEN label
             ELSE LowerAll(words[1]) \o JoinCamel(Tail(words))

\* camelize.prepended(prepend, label), for a label that camelizes to a
\* non-empty string
camelizePrepended(prepend, label) == prepend \o captialize(camelize(label))

Chars_on == <<"o","n">>
Chars_onBefore == <<"o","n","B","e","f","o","r","e">>
Chars_onAfter == <<"o","n","A","f","t","e","r">>
Chars_onEnter == <<"o","n","E","n","t","e","r">>
Chars_onLeave == <<"o","n","L","e","a","v","e">>
Chars_State == <<"S","t","a","t","e">>
Chars_Transition == <<"T","r","a","n","s","i","t","i","o","n">>
Chars_init == <<"i","n","i","t">>
Chars_onInvalidTransition == Chars_on \o <<"I","n","v","a","l","i","d">> \o Chars_Transition

\* A lifecycle event name for which no instance method can exist.
NoHook == <<"no hook">>

\* lifecycle.onEnter[state] and its like: set by Config.addState, which
\* skips a state whose name map[name] already finds (an inherited key).
StateHook(prepend, state) ==
    IF state \in ObjectPrototypeKeys THEN NoHook ELSE camelizePrepended(prepend, state)

\* The function the methods entry `key` of the instance holds, when an
\* observer is looked up: observer[event].
Observer(methods, event) ==
    IF event \in DOMAIN methods THEN methods[event] ELSE Undefined

IsClosure(fn) == fn # <<>> /\ fn[1] = "closure"

\* The events of JSM.transit(transition, from, to), in order, each with the
\* observer found for it when transit builds the list; events nobody
\* observes are left out (observeEvents skips them).
Lifecycle(methods, transition, from, to) ==
    LET changed == from # to
        hook(name) == <<[k |-> "call", hook |-> name, fn |-> Observer(methods, name)]>>
        when(c, s) == IF c THEN s ELSE <<>>
        all ==    hook(Chars_onBefore \o Chars_Transition)
               \o hook(camelizePrepended(Chars_onBefore, transition))
               \o when(changed, hook(Chars_onLeave \o Chars_State))
               \o when(changed, hook(StateHook(Chars_onLeave, from)))
               \o hook(Chars_on \o Chars_Transition)
               \o when(changed, <<[k |-> "doTransit", hook |-> NoHook, fn |-> Undefined]>>)
               \o when(changed, hook(Chars_onEnter \o Chars_State))
               \o when(changed, hook(StateHook(Chars_onEnter, to)))
               \o when(changed, hook(StateHook(Chars_on, to)))
               \o hook(Chars_onAfter \o Chars_Transition)
               \o hook(camelizePrepended(Chars_onAfter, transition))
               \o hook(camelizePrepended(Chars_on, transition))
    IN  SelectSeq(all, LAMBDA e : e.k = "doTransit" \/ e.fn # Undefined)

\* An engine that is given the error handler as the method
\* onInvalidTransition. C19 does not hold of this variant.
NewEngineHandlerInMethods(init, transitions, methods, onInvalid) ==
    [ state |-> NameNone,
      pending |-> FALSE,
      transitions |-> transitions \cup
                      {[name |-> Chars_init, from |-> NameNone, to |-> init, ord |-> 0]},
      methods |-> Put(methods, Chars_onInvalidTransition, onInvalid),
      onInvalidTransition |-> onInvalid ]

\* new StateMachine({ init, transitions, methods, onInvalidTransition }),
\* before its init transition is fired.  The engine looks for its
\* invalid-transition handler among `methods`; the option
\* onInvalidTransition beside them is kept but never read.
NewEngine(init, transitions, methods, onInvalid) ==
    [ state |-> NameNone,
      pending |-> FALSE,
      transitions |-> transitions \cup
                      {[name |-> Chars_init, from |-> NameNone, to |-> init, ord |-> 0]},
      methods |-> methods,
      onInvalidTransition |-> onInvalid ]

\* JSM.seek(transition): the target of `transition` from the current state,
\* or Undefined.
seek(e, transition) ==
    LET found == {t \in e.transitions : t.name = transition /\ t.from = e.state}
    IN  IF found = {} THEN Undefined ELSE (CHOOSE t \in found : TRUE).to

\* impl.is(state)
is(e, state) == e.state = state

\* impl.cannot(transition): !(!isPending() && !!seek(transition))
cannot(e, transition) == ~(~e.pending /\ seek(e, transition) # Undefined)

\* impl[transitionName]: the engine names each transition method
\* camelize(transition.name); the set of transitions such a method can fire.
MethodTransitions(e, name) == {t \in e.transitions : camelize(t.name) = name}

\* Of the transitions of one method name, the one defined last.
LastDefined(ts) == CHOOSE t \in ts : \A u \in ts : u.ord <= t.ord

RECURSIVE RunEngine(_, _, _)
\* JSM.observeEvents: the engine `e` runs the events left in frame `fr`
\* until it calls a user function (done is FALSE: the frame waits inside
\* that call) or until endTransit (done is TRUE).  `hs` is this._handlers,
\* which the closures of buildHandlerInClosure read.
RunEngine(e, fr, hs) ==
    IF fr.events = <<>>
    THEN [e |-> [e EXCEPT !.pending = FALSE], fr |-> fr, done |-> TRUE]
    ELSE LET ev == Head(fr.events)
             entry(fn) == [fn |-> fn, hook |-> ev.hook, state |-> e.state]
         IN  IF ev.k = "doTransit"
             THEN RunEngine([e EXCEPT !.state = fr.to], [fr EXCEPT !.events = Tail(@)], hs)
             ELSE IF IsClosure(ev.fn)
             THEN LET key == ev.fn[2]
                      ourHandlers == IF fr.frozen THEN fr.snap
                                     ELSE IF key \in DOMAIN hs THEN hs[key] ELSE <<>>
                  IN  IF fr.fan < Len(ourHandlers)
                      THEN [e |-> e,
                            fr |-> [fr EXCEPT !.fan = @ + 1,
                                              !.log = Append(@, entry(ourHandlers[fr.fan + 1]))],
                            done |-> FALSE]
                      ELSE RunEngine(e, [fr EXCEPT !.events = Tail(@), !.fan = 0,
                                                   !.frozen = FALSE, !.snap = <<>>], hs)
             ELSE [e |-> e,
                   fr |-> [fr EXCEPT !.events = Tail(@), !.log = Append(@, entry(ev.fn))],
                   done |-> FALSE]

\* JSM.transit(transition, from, to) as far as beginTransit: the frame of
\* the transition, with the events it will run.
NewFrame(id, op, arg, e, transition, to) ==
    [ eng |-> id, op |-> op, arg |-> arg, transition |-> transition, from |-> e.state,
      to |-> to,
      events |-> Lifecycle(e.methods, transition, e.state, to),
      fan |-> 0, frozen |-> FALSE, snap |-> <<>>, log |-> <<>> ]

----------------------------------------------------------------------------
(* The adapter: class FiniteStateMachine.                                  *)

\* The record of a call that has returned to its caller: `raised` says
\* whether it threw, `value` is what it returned, `arg` is the argument (the
\* target of a go or an addTransition, the handler of a registration or
\* removal), `from` is the engine's state when go was called or the source
\* of an addTransition, `log` lists
\* the user functions the engine invoked during a start or a go, `nested`
\* says that the caller was a callback.
NoRet ==
    [ op |-> "none", raised |-> FALSE, value |-> Null, arg |-> Null, from |-> Null,
      log |-> <<>>, nested |-> FALSE ]

This == <<"this">>
GlobalSelf == <<"self">>

Returns(op, value, arg, from, log, nested) ==
    [ op |-> op, raised |-> FALSE, value |-> value, arg |-> arg, from |-> from,
      log |-> log, nested |-> nested ]

Throws(op, arg, from, nested) ==
    [ op |-> op, raised |-> TRUE, value |-> Undefined, arg |-> arg, from |-> from,
      log |-> <<>>, nested |-> nested ]

\* A caller is ready to call the adapter: the test or application code when
\* no transition is in progress, else the callback the engine is inside.
CallerReady == ret = NoRet /\ (stack = <<>> \/ env.reentrant)

Nested == stack # <<>>

\* A stage guard that never raises. C5 does not hold of this variant.
ensureConfigureStageNeverThrows == FALSE

\* ensureConfigureStage() throws
ensureConfigureStageThrows == impl # 0

\* ensureRunningStage() throws
ensureRunningStageThrows == impl = 0

\* The insertion rank of `key` among the keys of `obj` that the engine or
\* captialize can confuse with it: for (k in obj) visits own keys in
\* insertion order, and a later key overwrites an earlier one's method.
Fold(key) == LowerAll(SelectSeq(key, LAMBDA c : ~IsSeparator(c)))
NextOrd(obj, key) == Cardinality({k \in DOMAIN obj : Fold(k) = Fold(key)})

Config == <<initState, errorHandler, stateConfiguration, transitionConfiguration>>

\* A redefinition check that never finds the name. C9 does not hold of
\* this variant.
RedefinedStateNever(name) == FALSE

\* if (stateConf[name]) throw new Error('Redefined state: ' + name)
RedefinedState(name) == Truthy(stateConfiguration, name)

AddStateBody(name, onEnterCallback, onLeaveCallback) ==
    IF ensureConfigureStageThrows \/ RedefinedState(name)
    THEN /\ ret' = Throws("addState", Null, Null, Nested)
         /\ UNCHANGED stateConfiguration
    ELSE /\ Cardinality(DOMAIN stateConfiguration) < MaxStates
         /\ stateConfiguration' =
                Put(stateConfiguration, name,
                    [ onEnterCallback |-> onEnterCallback,
                      onLeaveCallback |-> onLeaveCallback,
                      ord |-> NextOrd(stateConfiguration, name) ])
         /\ ret' = Returns("addState", This, Null, Null, <<>>, Nested)

AddState ==
    /\ CallerReady
    /\ \E name \in env.names, cbs \in env.stateCallbacks :
           AddStateBody(name, OptFn(cbs[1], "onEnter", name), OptFn(cbs[2], "onLeave", name))
    /\ UNCHANGED <<env, removed, impl, initState, errorHandler, transitionConfiguration,
                   handlers, engines, stack>>

SetInitStateBody(name) ==
    IF ensureConfigureStageThrows \/ TruthyString(initState)
    THEN /\ ret' = Throws("setInitState", name, Null, Nested)
         /\ UNCHANGED initState
    ELSE /\ initState' = name
         /\ ret' = Returns("setInitState", This, name, Null, <<>>, Nested)

SetInitState ==
    /\ CallerReady
    /\ \E name \in env.inits : SetInitStateBody(name)
    /\ UNCHANGED <<env, removed, impl, errorHandler, stateConfiguration, transitionConfiguration,
                   handlers, engines, stack>>

AddTransitionBody(from, to, onAfterCallback, onBeforeCallback) ==
    LET key == transitionKeyFormat(from, to)
    IN  IF \/ ensureConfigureStageThrows
           \/ ~Truthy(stateConfiguration, from)
           \/ ~Truthy(stateConfiguration, to)
           \/ Truthy(transitionConfiguration, key)
        THEN /\ ret' = Throws("addTransition", to, from, Nested)
             /\ UNCHANGED transitionConfiguration
        ELSE /\ Cardinality(DOMAIN transitionConfiguration) < MaxTransitions
             /\ transitionConfiguration' =
                    Put(transitionConfiguration, key,
                        [ from |-> from, to |-> to,
                          onAfterCallback |-> onAfterCallback,
                          onBeforeCallback |-> onBeforeCallback,
                          ord |-> NextOrd(transitionConfiguration, key) ])
             /\ ret' = Returns("addTransition", This, to, from, <<>>, Nested)

AddTransition ==
    /\ CallerReady
    /\ \E from \in env.names, to \in env.names, cbs \in env.transitionCallbacks :
           AddTransitionBody(from, to,
                             OptFn(cbs[1], "onAfter", transitionKeyFormat(from, to)),
                             OptFn(cbs[2], "onBefore", transitionKeyFormat(from, to)))
    /\ UNCHANGED <<env, removed, impl, initState, errorHandler, stateConfiguration,
                   handlers, engines, stack>>

AddErrorHandlerBody(fn) ==
    IF ensureConfigureStageThrows
    THEN /\ ret' = Throws("addErrorHandler", Null, Null, Nested)
         /\ UNCHANGED errorHandler
    ELSE /\ errorHandler' = fn
         /\ ret' = Returns("addErrorHandler", This, Null, Null, <<>>, Nested)

AddErrorHandler ==
    /\ CallerReady
    /\ env.errorHandlers
    /\ AddErrorHandlerBody(ErrorFn)
    /\ UNCHANGED <<env, removed, impl, initState, stateConfiguration, transitionConfiguration,
                   handlers, engines, stack>>

\* The closure buildHandlerInClosure(this._handlers, key) returns.
buildHandlerInClosure(key) == <<"closure", key>>

\* The last of the entries `es` of a configuration object that for (k in
\* ...) visits.
LastVisited(obj, ks) == CHOOSE k \in ks : \A j \in ks : obj[j].ord <= obj[k].ord

\* The object `methods` that start() builds from the two configurations.
BuildMethods(stateConf, transitionConf) ==
    LET after(h) == {k \in DOMAIN transitionConf :
                        /\ transitionConf[k].onAfterCallback # Undefined
                        /\ Chars_onAfter \o captialize(k) = h}
        before(h) == {k \in DOMAIN transitionConf :
                        /\ transitionConf[k].onBeforeCallback # Undefined
                        /\ Chars_onBefore \o captialize(k) = h}
        enter(h) == {k \in DOMAIN stateConf :
                        /\ stateConf[k].onEnterCallback # Undefined
                        /\ Chars_onEnter \o captialize(k) = h}
        leave(h) == {k \in DOMAIN stateConf :
                        /\ stateConf[k].onLeaveCallback # Undefined
                        /\ Chars_onLeave \o captialize(k) = h}
        keys ==      {Chars_onAfter \o captialize(k) : k \in
                         {j \in DOMAIN transitionConf : transitionConf[j].onAfterCallback # Undefined}}
                \cup {Chars_onBefore \o captialize(k) : k \in
                         {j \in DOMAIN transitionConf : transitionConf[j].onBeforeCallback # Undefined}}
                \cup {Chars_onEnter \o captialize(k) : k \in
                         {j \in DOMAIN stateConf : stateConf[j].onEnterCallback # Undefined}}
                \cup {Chars_onLeave \o captialize(k) : k \in
                         {j \in DOMAIN stateConf : stateConf[j].onLeaveCallback # Undefined}}
                \cup {Chars_onEnter \o Chars_State, Chars_onLeave \o Chars_State}
    IN  [h \in keys |->
            IF h = Chars_onEnter \o Chars_State THEN buildHandlerInClosure("onEnterState")
            ELSE IF h = Chars_onLeave \o Chars_State THEN buildHandlerInClosure("onLeaveState")
            ELSE IF after(h) # {}
            THEN transitionConf[LastVisited(transitionConf, after(h))].onAfterCallback
            ELSE IF before(h) # {}
            THEN transitionConf[LastVisited(transitionConf, before(h))].onAfterCallback
            ELSE IF enter(h) # {}
            THEN stateConf[LastVisited(stateConf, enter(h))].onEnterCallback
            ELSE stateConf[LastVisited(stateConf, leave(h))].onLeaveCallback]

\* The array `transitions` that start() builds.
BuildTransitions(transitionConf) ==
    { [ name |-> k, from |-> transitionConf[k].from, to |-> transitionConf[k].to,
        ord |-> transitionConf[k].ord ] : k \in DOMAIN transitionConf }

\* A frame that is inside a closure of buildHandlerInClosure keeps the
\* array it read from this._handlers when start() puts a new array there.
KeepArray(fr, hs) ==
    IF fr.fan > 0 /\ ~fr.frozen
    THEN [fr EXCEPT !.frozen = TRUE, !.snap = hs[Head(fr.events).fn[2]]]
    ELSE fr

\* The engine runs frame `fr` on top of the frames `below`; when its
\* transition ends, the call that fired it returns: start() assigns the new
\* engine to this._impl and returns this, go() returns the global `self`.
Proceed(es, below, fr, hs) ==
    LET r == RunEngine(es[fr.eng], fr, hs)
    IN  /\ engines' = [es EXCEPT ![fr.eng] = r.e]
        /\ IF r.done
           THEN /\ stack' = below
                /\ impl' = IF fr.op = "start" THEN fr.eng ELSE impl
                /\ ret' = Returns(fr.op, IF fr.op = "start" THEN This ELSE GlobalSelf,
                                  fr.arg, fr.from, r.fr.log, below # <<>>)
           ELSE /\ stack' = Append(below, r.fr)
                /\ impl' = impl
                /\ ret' = NoRet

StartBody ==
    IF ensureConfigureStageThrows \/ ~TruthyString(initState)
    THEN /\ ret' = Throws("start", Null, Null, Nested)
         /\ UNCHANGED <<impl, handlers, engines, stack>>
    ELSE /\ Len(engines) < MaxEngines
         /\ LET methods == BuildMethods(stateConfiguration, transitionConfiguration)
                hs == Put(Put(handlers, "onEnterState", <<>>), "onLeaveState", <<>>)
                e == NewEngine(initState, BuildTransitions(transitionConfiguration), methods,
                               IF errorHandler # Null THEN errorHandler
                               ELSE DefaultErrorHandler)
                id == Len(engines) + 1
                kept == [i \in 1..Len(stack) |-> KeepArray(stack[i], handlers)]
            IN  /\ handlers' = hs
                /\ Proceed(Append(engines, [e EXCEPT !.pending = TRUE]), kept,
                           NewFrame(id, "start", Null, e, Chars_init, seek(e, Chars_init)), hs)

Start ==
    /\ CallerReady
    /\ StartBody
    /\ UNCHANGED <<env, removed, initState, errorHandler, stateConfiguration, transitionConfiguration>>

\* if (!stateConf[to]) throw new Error('Go to undefined state: ' + to)
GoUndefinedState(to) == ~Truthy(stateConfiguration, to)

\* if (this._impl.is(to)) return this
GoAlreadyThere(e, to) == is(e, to)

\* if (this._impl.cannot(transitionName)) throw new Error('Transition is not allowed: ...')
GoNotAllowed(e, transitionName) == cannot(e, transitionName)

GoBody(to) ==
    IF ensureRunningStageThrows
    THEN /\ ret' = Throws("go", to, Null, Nested)
         /\ UNCHANGED <<impl, engines, stack>>
    ELSE LET e == engines[impl]
             currentState == e.state
             transitionName == transitionKeyFormat(currentState, to)
         IN  IF GoUndefinedState(to)
             THEN /\ ret' = Throws("go", to, currentState, Nested)
                  /\ UNCHANGED <<impl, engines, stack>>
             ELSE IF GoAlreadyThere(e, to)
             THEN /\ ret' = Returns("go", This, to, currentState, <<>>, Nested)
                  /\ UNCHANGED <<impl, engines, stack>>
             ELSE IF GoNotAllowed(e, transitionName) \/ MethodTransitions(e, transitionName) = {}
             THEN /\ ret' = Throws("go", to, currentState, Nested)
                  /\ UNCHANGED <<impl, engines, stack>>
             ELSE LET t == LastDefined(MethodTransitions(e, transitionName)).name
                      invalid == Observer(e.methods, Chars_onInvalidTransition)
                  IN  IF e.pending \/ (seek(e, t) = Undefined /\ invalid = Undefined)
                      THEN /\ ret' = Throws("go", to, currentState, Nested)
                           /\ UNCHANGED <<impl, engines, stack>>
                      ELSE IF seek(e, t) = Undefined
                      THEN /\ ret' = Returns("go", GlobalSelf, to, currentState,
                                            <<[ fn |-> invalid, hook |-> Chars_onInvalidTransition,
                                                state |-> currentState ]>>, Nested)
                           /\ UNCHANGED <<impl, engines, stack>>
                      ELSE Proceed([engines EXCEPT ![impl].pending = TRUE], stack,
                                   NewFrame(impl, "go", to, e, t, seek(e, t)), handlers)

Go ==
    /\ CallerReady
    /\ \E to \in env.names \cup env.inits : GoBody(to)
    /\ UNCHANGED <<env, removed, initState, errorHandler, stateConfiguration, transitionConfiguration,
                   handlers>>

CurrentBody ==
    IF ensureRunningStageThrows
    THEN ret' = Throws("current", Null, Null, Nested)
    ELSE ret' = Returns("current", engines[impl].state, Null, Null, <<>>, Nested)

Current ==
    /\ CallerReady
    /\ CurrentBody
    /\ UNCHANGED <<env, removed, impl, initState, errorHandler, stateConfiguration,
                   transitionConfiguration, handlers, engines, stack>>

\* A membership test that never finds the item. C12 does not hold of this
\* variant.
ContainsNever(array, item) == FALSE

\* indexOf(array, item) >= 0, where indexOf(undefined, item) is -1
Contains(array, item) == \E i \in 1..Len(array) : array[i] = item

\* without(array, item), where without(undefined, item) is []
without(array, item) == SelectSeq(array, LAMBDA x : x # item)

\* onEnterState and onExitState: register `handler` in this._handlers[key]
RegisterBody(op, key, handler) ==
    IF key \notin DOMAIN handlers \/ Contains(handlers[key], handler)
    THEN /\ ret' = Throws(op, handler, Null, Nested)
         /\ UNCHANGED <<handlers, removed>>
    ELSE /\ handlers' = [handlers EXCEPT ![key] = Append(@, handler)]
         /\ ret' = Returns(op, This, handler, Null, <<>>, Nested)
         /\ removed' = removed \ {<<key, handler>>}

\* offEnterState and offExitState: read this._handlers[key], write the
\* filtered array to this._handlers[target]
UnregisterBody(op, key, target, handler) ==
    /\ handlers' = Put(handlers, target,
                       without(IF key \in DOMAIN handlers THEN handlers[key] ELSE <<>>, handler))
    /\ ret' = Returns(op, This, handler, Null, <<>>, Nested)
    /\ removed' = removed \cup {<<key, handler>>}

OnEnterState ==
    /\ CallerReady
    /\ \E handler \in env.handlerFns : RegisterBody("onEnterState", "onEnterState", handler)
    /\ UNCHANGED <<env, impl, initState, errorHandler, stateConfiguration,
                   transitionConfiguration, engines, stack>>

OnExitState ==
    /\ CallerReady
    /\ \E handler \in env.handlerFns : RegisterBody("onExitState", "onLeaveState", handler)
    /\ UNCHANGED <<env, impl, initState, errorHandler, stateConfiguration,
                   transitionConfiguration, engines, stack>>

OffEnterState ==
    /\ CallerReady
    /\ \E handler \in env.handlerFns :
           UnregisterBody("offEnterState", "onEnterState", "onenterstate", handler)
    /\ UNCHANGED <<env, impl, initState, errorHandler, stateConfiguration,
                   transitionConfiguration, engines, stack>>

OffExitState ==
    /\ CallerReady
    /\ \E handler \in env.handlerFns :
           UnregisterBody("offExitState", "onLeaveState", "onexitstate", handler)
    /\ UNCHANGED <<env, impl, initState, errorHandler, stateConfiguration,
                   transitionConfiguration, engines, stack>>

\* The user function the engine is inside returns; the engine goes on.
CallbackReturn ==
    /\ ret = NoRet
    /\ stack # <<>>
    /\ Proceed(engines, SubSeq(stack, 1, Len(stack) - 1), stack[Len(stack)], handlers)
    /\ UNCHANGED <<env, removed, initState, errorHandler, stateConfiguration, transitionConfiguration,
                   handlers>>

\* The caller takes the value returned or the error thrown.
Return ==
    /\ ret # NoRet
    /\ ret' = NoRet
    /\ UNCHANGED <<env, removed, impl, initState, errorHandler, stateConfiguration,
                   transitionConfiguration, handlers, engines, stack>>

----------------------------------------------------------------------------
(* Input universes.  A behaviour draws one of them in Init and keeps it.   *)

HandlerH1 == <<"fn", "h1">>
HandlerH2 == <<"fn", "h2">>
AllCallbacks == {<<a, b>> : a \in BOOLEAN, b \in BOOLEAN}

Universe(names, inits, stateCallbacks, transitionCallbacks, handlerFns, errorHandlers, reentrant) ==
    [ names |-> names, inits |-> inits, stateCallbacks |-> stateCallbacks,
      transitionCallbacks |-> transitionCallbacks, handlerFns |-> handlerFns,
      errorHandlers |-> errorHandlers, reentrant |-> reentrant ]

NoCallbacks == {<<FALSE, FALSE>>}
BothCallbacks == {<<TRUE, TRUE>>}

\* Transitions with every combination of callbacks; callbacks that call
\* nothing of the adapter.
FlowUniverse ==
    Universe({NameN1, NameN2}, {NameN1}, NoCallbacks \cup BothCallbacks, AllCallbacks,
             {}, FALSE, FALSE)

\* Callbacks on every state and transition that call the adapter.
ReentrantUniverse ==
    Universe({NameN1, NameN2}, {NameN1}, BothCallbacks, BothCallbacks,
             {}, FALSE, TRUE)

\* Two handlers for the enter and exit lists, no callbacks.
HandlerUniverse ==
    Universe({NameN1, NameN2}, {NameN1}, NoCallbacks, NoCallbacks,
             {HandlerH1, HandlerH2}, FALSE, FALSE)

\* State callbacks that register and remove a handler.
ReentrantHandlerUniverse ==
    Universe({NameN1}, {NameN1}, BothCallbacks, NoCallbacks,
             {HandlerH1}, FALSE, TRUE)

\* A state name that every object literal inherits as a key.
PrototypeUniverse ==
    Universe({NameN1, NameToString}, {NameN1, NameToString}, BothCallbacks, BothCallbacks,
             {}, FALSE, TRUE)

\* Init states that are empty or undeclared, and the error handler.
InitUniverse ==
    Universe({NameN1, NameN2}, {NameN1, NameEmpty, NameN3}, BothCallbacks, NoCallbacks,
             {}, TRUE, FALSE)

\* State names that differ only in the case of their first letter.
CaseUniverse ==
    Universe({NameN1, NameUpperN1}, {NameN1}, BothCallbacks, NoCallbacks,
             {}, FALSE, FALSE)

\* A state named 'state', with callbacks, and a handler.
StateNameUniverse ==
    Universe({NameN1, NameState}, {NameN1}, BothCallbacks, NoCallbacks,
             {HandlerH1}, FALSE, FALSE)

\* Transitions whose engine methods have the same name: camelize maps both
\* 'n12N1' and 'N12_n1' to 'n12N1'.  With the error handler.
SeparatorUniverse ==
    Universe({NameN1, NameUpperN1, NameUnderN1}, {NameN1}, NoCallbacks, NoCallbacks,
             {}, TRUE, FALSE)

\* State names that contain the character '2'.
TwoUniverse ==
    Universe({NameN, NameN2N}, {NameN}, NoCallbacks, NoCallbacks,
             {}, FALSE, FALSE)

Universes ==
    { FlowUniverse, ReentrantUniverse, HandlerUniverse, ReentrantHandlerUniverse,
      PrototypeUniverse, InitUniverse, CaseUniverse, StateNameUniverse,
      SeparatorUniverse, TwoUniverse }

Init ==
    /\ env \in Universes
    /\ removed = {}
    /\ impl = 0
    /\ initState = Null
    /\ errorHandler = Null
    /\ stateConfiguration = EmptyObject
    /\ transitionConfiguration = EmptyObject
    /\ handlers = [k \in {} |-> <<>>]
    /\ engines = <<>>
    /\ stack = <<>>
    /\ ret = NoRet

Next ==
    \/ AddState
    \/ SetInitState
    \/ AddTransition
    \/ AddErrorHandler
    \/ Start
    \/ Go
    \/ Current
    \/ OnEnterState
    \/ OnExitState
    \/ OffEnterState
    \/ OffExitState
    \/ CallbackReturn
    \/ Return

Spec == Init /\ [][Next]_vars

----------------------------------------------------------------------------
(* Properties.                                                             *)

Running == impl # 0
Declared(name) == name \in DOMAIN stateConfiguration
DeclaredTransition(from, to) ==
    \E k \in DOMAIN transitionConfiguration :
        transitionConfiguration[k].from = from /\ transitionConfiguration[k].to = to
TransitionOf(from, to) ==
    transitionConfiguration[CHOOSE k \in DOMAIN transitionConfiguration :
        transitionConfiguration[k].from = from /\ transitionConfiguration[k].to = to]
CurrentState == engines[impl].state
Count(log, fn) == Cardinality({i \in 1..Len(log) : log[i].fn = fn})

\* A go(to) called by the application (not by a callback) in the running
\* phase has just returned.
GoReturned == ret.op = "go" /\ ~ret.nested /\ ret.from # Null

\* The transition (from, to) between declared states was declared before
\* start() built the engine.
BuiltTransition(from, to) ==
    /\ Declared(from) /\ Declared(to)
    /\ DeclaredTransition(from, to)
    /\ \E t \in engines[impl].transitions : t.from = from /\ t.to = to

\* C1: in the running phase, go(t) along a transition (s, t) declared
\* before start(), from the current state s # t, succeeds, leaves t the
\* current state, and has invoked the transition's onAfter callback
\* exactly once, whether or not an onBefore callback was given too.
C1_GoInvokesAfterOnce ==
    (/\ GoReturned
     /\ ret.arg # ret.from
     /\ BuiltTransition(ret.from, ret.arg))
    => /\ ~ret.raised
       /\ CurrentState = ret.arg
       /\ LET after == TransitionOf(ret.from, ret.arg).onAfterCallback
          IN  after # Undefined => Count(ret.log, after) = 1

\* C1 fails on the code; the case it is about: a go along a declared
\* transition that was given both callbacks has returned.
C1_BothCallbacksGiven ==
    /\ GoReturned /\ ret.arg # ret.from /\ BuiltTransition(ret.from, ret.arg)
    /\ TransitionOf(ret.from, ret.arg).onAfterCallback # Undefined
    /\ TransitionOf(ret.from, ret.arg).onBeforeCallback # Undefined

ConfigMutators == {"addState", "setInitState", "addTransition", "addErrorHandler"}

\* A go(t) has just returned that was called in the running phase for a
\* declared state t other than the current state, with no transition from
\* the current state to t declared.
GoWithoutTransition ==
    /\ ret.op = "go" /\ ret.from # Null
    /\ Declared(ret.arg)
    /\ ret.arg # ret.from
    /\ ~DeclaredTransition(ret.from, ret.arg)

\* C2: in the running phase, go(t) for a declared state t that is not the
\* current state s, with no transition (s, t) declared, raises; the step
\* changes neither the current state nor anything else of the engines, no
\* engine transition is begun (no frame is pushed, so no callback or
\* handler is invoked) and the lists of handlers are unchanged.
C2_GoWithoutTransitionFails ==
    [][(ret # ret' /\ GoWithoutTransition')
       => /\ ret'.raised
          /\ ret'.log = <<>>
          /\ UNCHANGED <<impl, engines, stack, handlers, Config>>]_vars

C2_Witness ==
    /\ GoWithoutTransition /\ ret.raised
    /\ transitionConfiguration # EmptyObject

\* C3: in the running phase, go(t) for a name t that was never declared
\* with addState (and is not the current state) raises, leaves the current state unchanged and invokes no
\* callback or handler.
C3_GoUndeclaredFails ==
    (ret.op = "go" /\ ret.from # Null /\ ~Declared(ret.arg) /\ ret.arg # ret.from)
    => (ret.raised /\ CurrentState = ret.from /\ ret.log = <<>>)

\* C4 as claimed: in the running phase, go(t) when t is the current state
\* does not fail.
C4_GoToCurrentNeverFails ==
    (ret.op = "go" /\ ret.from # Null /\ ret.arg = ret.from) => ~ret.raised

\* C5: after a successful start(), every call of addState, setInitState,
\* addTransition and addErrorHandler raises and leaves the declared states,
\* the declared transitions, the init state, the error handler, the engine
\* and its current state unchanged.
C5_ConfigureAfterStartFails ==
    [][(Running /\ ret # ret' /\ ret'.op \in ConfigMutators)
       => (ret'.raised /\ UNCHANGED <<Config, impl, engines>>)]_vars

C5_Witness ==
    /\ Running /\ ret.op = "addErrorHandler" /\ ret.raised
    /\ errorHandler = Null

\* C6: before start() has succeeded, go, current, onEnterState and
\* onExitState raise.
C6_RunBeforeStartFails ==
    (~Running /\ ret.op \in {"go", "current", "onEnterState", "onExitState"}) => ret.raised

\* C7: a start() that leaves the adapter in the configuration phase has
\* raised, was called while no init state had been set by setInitState, and
\* has created no engine; so after a setInitState that returned, start()
\* succeeds.
C7_StartNeedsInitState ==
    (ret.op = "start" /\ ~Running /\ ~ret.nested)
    => (ret.raised /\ initState = Null /\ engines = <<>>)

\* C8: once created, the engine instance is never replaced, and the adapter
\* never returns to the configuration phase.
C8_EngineNeverReplaced ==
    [][impl # 0 => impl' = impl]_vars

\* C9: in the configuration phase, an addState that raises leaves the
\* declared states unchanged, and one that returns has added exactly one
\* name that was not declared before and has kept every earlier
\* declaration with its callbacks: addState of a declared name raises.
C9_AddStateKeepsDeclarations ==
    [][(ret # ret' /\ ret'.op = "addState")
       => IF ret'.raised
          THEN UNCHANGED stateConfiguration
          ELSE /\ \E name \in DOMAIN stateConfiguration' \ DOMAIN stateConfiguration :
                     DOMAIN stateConfiguration' = DOMAIN stateConfiguration \cup {name}
               /\ \A name \in DOMAIN stateConfiguration :
                     stateConfiguration'[name] = stateConfiguration[name]]_vars

C9_Witness ==
    /\ ~Running /\ ret.op = "addState" /\ ret.raised
    /\ env.names \cap ObjectPrototypeKeys = {}

\* C10: every declared transition has both endpoints in the set of
\* declared states.
C10_TransitionsBetweenDeclaredStates ==
    \A k \in DOMAIN transitionConfiguration :
        Declared(transitionConfiguration[k].from) /\ Declared(transitionConfiguration[k].to)

\* C11: once an init state has been set by a setInitState that returned,
\* every later setInitState raises and the init state keeps its value.
C11_InitStateSetOnce ==
    [][(initState # Null /\ ret # ret' /\ ret'.op = "setInitState")
       => (ret'.raised /\ initState' = initState)]_vars

\* The list this._handlers[key], empty while start() has not created it.
HandlerList(hs, key) == IF key \in DOMAIN hs THEN hs[key] ELSE <<>>

NoDuplicates(list) == \A i, j \in 1..Len(list) : list[i] = list[j] => i = j

RegisterOps == {"onEnterState", "onExitState"}
ListKeyOf(op) == IF op \in {"onEnterState", "offEnterState"} THEN "onEnterState" ELSE "onLeaveState"

\* C12: in the running phase, onEnterState(h) (onExitState(h)) raises when
\* h is in the list of enter (exit) handlers and leaves the lists
\* unchanged; and after every step neither list holds a handler twice.
C12_NoHandlerTwice ==
    [][/\ (/\ Running /\ ret # ret' /\ ret'.op \in RegisterOps
           /\ Contains(HandlerList(handlers, ListKeyOf(ret'.op)), ret'.arg))
          => (ret'.raised /\ UNCHANGED handlers)
       /\ NoDuplicates(HandlerList(handlers', "onEnterState"))
       /\ NoDuplicates(HandlerList(handlers', "onLeaveState"))]_vars

C12_Witness ==
    /\ Running /\ ret.op = "onExitState" /\ ret.raised
    /\ Len(HandlerList(handlers, "onLeaveState")) = 2
    /\ Len(HandlerList(handlers, "onEnterState")) = 1

\* C13: in the running phase, onEnterState(h) (onExitState(h)) called for a
\* handler h that offEnterState(h) (offExitState(h)) was called for since h
\* was last registered does not raise, and leaves h in the list exactly once.
C13_RegisterAfterRemove ==
    [][(/\ Running /\ ret # ret' /\ ret'.op \in RegisterOps
        /\ <<ListKeyOf(ret'.op), ret'.arg>> \in removed)
       => /\ ~ret'.raised
          /\ Count([i \in 1..Len(HandlerList(handlers', ListKeyOf(ret'.op))) |->
                       [fn |-> HandlerList(handlers', ListKeyOf(ret'.op))[i]]],
                   ret'.arg) = 1]_vars

\* The engine has begun, in this step, to call a user function: the last
\* entry of the log of the innermost frame.
NewInvocation ==
    /\ stack' # <<>>
    /\ \/ Len(stack') > Len(stack)
       \/ /\ Len(stack') = Len(stack)
          /\ Len(stack'[Len(stack')].log) > Len(stack[Len(stack)].log)

Invoked == stack'[Len(stack')].log[Len(stack'[Len(stack')].log)]

HookOfList(key) ==
    IF key = "onEnterState" THEN Chars_onEnter \o Chars_State ELSE Chars_onLeave \o Chars_State

\* C14: in the running phase, a handler h that offEnterState(h)
\* (offExitState(h)) was called for is not invoked as an enter (exit)
\* handler by a go() until h is registered again.
C14_RemovedHandlerNotInvoked ==
    [][(NewInvocation /\ stack'[Len(stack')].op = "go")
       => \A key \in {"onEnterState", "onLeaveState"} :
              ~(Invoked.hook = HookOfList(key) /\ <<key, Invoked.fn>> \in removed)]_vars

\* C15: a go() that succeeds along a transition declared with an onBefore
\* callback has invoked that callback exactly once, while the engine was
\* still in the source state, and has invoked the onAfter callback (when
\* given) only after the engine reached the target state.
C15_GoInvokesBeforeOnce ==
    (/\ GoReturned /\ ~ret.raised
     /\ ret.arg # ret.from
     /\ BuiltTransition(ret.from, ret.arg)
     /\ TransitionOf(ret.from, ret.arg).onBeforeCallback # Undefined)
    => LET t == TransitionOf(ret.from, ret.arg)
       IN  /\ Count(ret.log, t.onBeforeCallback) = 1
           /\ \A i \in 1..Len(ret.log) :
                 /\ ret.log[i].fn = t.onBeforeCallback => ret.log[i].state = ret.from
                 /\ (t.onAfterCallback # Undefined /\ ret.log[i].fn = t.onAfterCallback)
                        => ret.log[i].state = ret.arg

\* C16: a go() that succeeds from a declared state s to a declared state t
\* has invoked the onLeave callback of s and the onEnter callback of t
\* exactly once each (when given), and no onEnter callback of a state other
\* than t and no onLeave callback of a state other than s.
C16_GoInvokesStateCallbacks ==
    (/\ GoReturned /\ ~ret.raised
     /\ ret.arg # ret.from
     /\ Declared(ret.from) /\ Declared(ret.arg))
    => \A u \in DOMAIN stateConfiguration :
          LET enter == stateConfiguration[u].onEnterCallback
              leave == stateConfiguration[u].onLeaveCallback
          IN  /\ enter # Undefined
                    => Count(ret.log, enter) = IF u = ret.arg THEN 1 ELSE 0
              /\ leave # Undefined
                    => Count(ret.log, leave) = IF u = ret.from THEN 1 ELSE 0

\* The onBefore and onAfter callbacks of the declared transitions.
TransitionCallbacks ==
    UNION {{transitionConfiguration[k].onAfterCallback,
            transitionConfiguration[k].onBeforeCallback} : k \in DOMAIN transitionConfiguration}
    \ {Undefined}

\* C17: a start() called by the application that succeeds, with the init
\* state declared with an onEnter callback, has invoked that callback
\* exactly once and no onBefore or onAfter callback of a transition, and
\* leaves the engine in the init state.
C17_StartEntersInitState ==
    (/\ ret.op = "start" /\ ~ret.raised /\ ~ret.nested
     /\ Declared(initState)
     /\ stateConfiguration[initState].onEnterCallback # Undefined)
    => /\ Count(ret.log, stateConfiguration[initState].onEnterCallback) = 1
       /\ CurrentState = initState
       /\ \A i \in 1..Len(ret.log) : ret.log[i].fn \notin TransitionCallbacks

\* The functions that `log` records as called for the lifecycle event `hook`.
InvokedFor(log, hook) ==
    LET es == SelectSeq(log, LAMBDA entry : entry.hook = hook)
    IN  [i \in 1..Len(es) |-> es[i].fn]

\* C18: a state-changing go() that succeeds (its callbacks not calling the
\* adapter) has invoked the handlers registered with onEnterState, each
\* exactly once and in the order of their registration, and likewise the
\* handlers registered with onExitState.
C18_HandlersInvokedInOrder ==
    (/\ GoReturned /\ ~ret.raised /\ ~env.reentrant
     /\ ret.arg # ret.from)
    => \A key \in {"onEnterState", "onLeaveState"} :
          InvokedFor(ret.log, HookOfList(key)) = HandlerList(handlers, key)

ErrorHandlers == {ErrorFn, DefaultErrorHandler}

\* The error handler is among the functions `log` records as called.
ErrorHandlerIn(log) == \E i \in 1..Len(log) : log[i].fn \in ErrorHandlers

\* The go() that has just returned asked for a move the engine cannot
\* make: no transition from the state it was in to the target was handed to
\* the engine, or a transition of the engine is still in progress.
InvalidGo ==
    /\ ret.op = "go" /\ ret.from # Null
    /\ ret.arg # ret.from
    /\ \/ ~\E t \in engines[impl].transitions : t.from = ret.from /\ t.to = ret.arg
       \/ \E i \in 1..Len(stack) : stack[i].eng = impl

C20_AddTransitionOfNewPairSucceeds ==
    [][(/\ ~Running /\ ret # ret' /\ ret'.op = "addTransition"
        /\ Declared(ret'.from) /\ Declared(ret'.arg)
        /\ ~DeclaredTransition(ret'.from, ret'.arg))
       => ~ret'.raised]_vars

\* C21: every go() that does not raise returns the adapter instance (the
\* `this` that addState, setInitState, addTransition and start return), in
\* the no-op case and after a delegated transition alike.
C21_GoReturnsAdapter ==
    (ret.op = "go" /\ ~ret.raised) => ret.value = This

\* C22: in every state reachable after a successful start(), the engine's
\* current state, and so every value current() returns, is the name of a
\* state declared with addState; in particular the init state is declared.
C22_CurrentStateDeclared ==
    /\ Running => Declared(CurrentState)
    /\ (ret.op = "current" /\ ~ret.raised) => Declared(ret.value)

\* The call the engine works for when the returned-call record is `r`, the
\* frames are `frames` and this._impl is `id`: the go(to) from state `from`
\* whose transition is in progress on this._impl (the top frame) or has
\* just ended (the call has returned without raising).
DuringGo(r, frames, id, from, to) ==
    \/ r.op = "go" /\ ~r.raised /\ r.from = from /\ r.arg = to
    \/ /\ r = NoRet /\ frames # <<>>
       /\ LET fr == frames[Len(frames)]
          IN  fr.op = "go" /\ fr.eng = id /\ fr.from = from /\ fr.arg = to

\* C23: after start(), whenever the current state changes from s to t, the
\* transition (s, t) was declared with addTransition and the change happens
\* during a call go(t); every other call, and every failing call, leaves
\* the current state unchanged.
C23_StateChangesOnlyAlongDeclaredEdges ==
    [][(Running /\ Running' /\ CurrentState' # CurrentState)
       => /\ DeclaredTransition(CurrentState, CurrentState')
          /\ DuringGo(ret', stack', impl', CurrentState, CurrentState')]_vars

====
